---------------------------- MODULE Spec2Model ----------------------------
(***************************************************************************)
(* Covid19-model: the parameter class (models/params.py), the SEIR model   *)
(* (models/seir.py) and the Dash callbacks that drive it (app.py).         *)
(*                                                                         *)
(* Numbers.  Python floats are modelled as fixed-point integers with four  *)
(* decimal places: the float x is the integer x * Unit.  pop_size and      *)
(* num_weeks, which the code uses as plain ints, stay plain integers.      *)
(* Python's None is the empty set and a supplied optional argument v is    *)
(* the set {v}, so that "x is None" and "x == y" never compare values of   *)
(* different kinds.                                                        *)
(***************************************************************************)
EXTENDS Integers, Sequences, FiniteSets, TLC

Unit == 10^4

None == {}
Some(v) == {v}
Get(o) == CHOOSE v \in o : TRUE

\* a * b for fixed-point a, b (a of small magnitude), rounded towards minus
\* infinity; split so that no intermediate product leaves 32 bits.
Mul(a, b) == a * (b \div Unit) + (a * (b % Unit)) \div Unit

Abs(x) == IF x < 0 THEN -x ELSE x
Min(a, b) == IF a <= b THEN a ELSE b

(***************************************************************************)
(* models/params.py                                                        *)
(***************************************************************************)

\* GenericParam.__init__: the object it leaves behind.  The group test reads
\* the max_value ARGUMENT, before self.max_value is defaulted, so a missing
\* maximum (None) never equals the minimum there.
GenericParam(name, min_value, max_value, default_value, is_int, is_pct, group, show_label) ==
    LET group1 == IF group = None /\ max_value = Some(min_value)
                  THEN Some("constant") ELSE group
        mx == IF max_value = None THEN min_value ELSE Get(max_value)
        df == IF default_value = None THEN (min_value + mx) \div 2 ELSE Get(default_value)
    IN  [name |-> name, min_value |-> min_value, max_value |-> mx, default_value |-> df,
         is_int |-> is_int, is_pct |-> is_pct, group |-> group1,
         show_label |-> show_label,
         is_constant |-> IF min_value # mx THEN FALSE ELSE TRUE]


(***************************************************************************)
(* models/seir.py                                                          *)
(***************************************************************************)

\* The literals of SeirCovidModel.__init__ as fixed-point numbers.
Fix(num, den) == (num * Unit) \div den

\* self.params, in definition order.
ModelParams ==
    << GenericParam("p_R", Fix(956, 1000), None, None, FALSE, FALSE, None, FALSE),
       GenericParam("p_H", Fix(308, 10000), None, None, FALSE, FALSE, None, FALSE),
       GenericParam("p_C", Fix(132, 10000), None, None, FALSE, FALSE, None, FALSE),
       GenericParam("nu", Fix(70, 46), None, None, FALSE, FALSE, None, FALSE),
       GenericParam("gamma", Fix(7, 5), None, None, FALSE, FALSE, None, FALSE),
       GenericParam("delta_H", Fix(7, 8), None, None, FALSE, FALSE, None, FALSE),
       GenericParam("delta_C", Fix(7, 6), None, None, FALSE, FALSE, None, FALSE),
       GenericParam("xi_C", Fix(7, 10), None, None, FALSE, FALSE, None, FALSE),
       GenericParam("max_R0", Fix(2, 1), Some(Fix(25, 10)), None, FALSE, FALSE,
                    Some("advanced"), TRUE),
       GenericParam("delta", Fix(0, 1), Some(Fix(3, 10)), None, FALSE, TRUE,
                    Some("advanced"), TRUE),
       GenericParam("phi", Fix(-38, 10), None, None, FALSE, FALSE, None, FALSE),
       GenericParam("start_sd", Fix(0, 1), Some(Fix(20, 1)), Some(Fix(2, 1)), TRUE, FALSE,
                    Some("static_social_distancing"), FALSE),
       GenericParam("sd_duration", Fix(0, 1), Some(Fix(40, 1)), Some(Fix(4, 1)), TRUE, FALSE,
                    Some("static_social_distancing"), FALSE),
       GenericParam("sd_reduction", Fix(0, 1), Some(Fix(1, 1)), Some(Fix(4, 10)), FALSE, TRUE,
                    Some("static_social_distancing"), FALSE),
       GenericParam("dynamic_sd_cutoff", Fix(20, 1), Some(Fix(100, 1)), Some(Fix(38, 1)), TRUE,
                    FALSE, Some("dynamic_social_distancing"), FALSE) >>

ParamNamed(n) == CHOOSE i \in 1..Len(ModelParams) : ModelParams[i].name = n
DefaultOf(n) == ModelParams[ParamNamed(n)].default_value

\* SeirCovidModel.__init__: the attributes of the new object.  self.t is
\* range(0, num_weeks + 1) and self.t_weeks has one date per element of it;
\* a date is modelled by its week offset from start_date.
SeirCovidModel(pop_size, num_weeks, static_sd, dynamic_sd) ==
    [pop_size |-> pop_size, num_weeks |-> num_weeks,
     static_sd |-> static_sd, dynamic_sd |-> dynamic_sd,
     params |-> ModelParams,
     p_R |-> DefaultOf("p_R"), p_H |-> DefaultOf("p_H"), p_C |-> DefaultOf("p_C"),
     nu |-> DefaultOf("nu"), gamma |-> DefaultOf("gamma"),
     delta_H |-> DefaultOf("delta_H"), delta_C |-> DefaultOf("delta_C"),
     xi_C |-> DefaultOf("xi_C"), max_R0 |-> DefaultOf("max_R0"),
     phi |-> DefaultOf("phi"), delta |-> DefaultOf("delta"),
     start_sd |-> DefaultOf("start_sd"), sd_duration |-> DefaultOf("sd_duration"),
     sd_reduction |-> DefaultOf("sd_reduction"),
     dynamic_sd_cutoff |-> DefaultOf("dynamic_sd_cutoff"),
     t |-> [i \in 1..(num_weeks + 1) |-> i - 1],
     t_weeks |-> [i \in 1..(num_weeks + 1) |-> i - 1]]

\* numpy.pi and numpy.cos on fixed-point radians: the argument is reduced to
\* the first quadrant and the Taylor polynomial of degree 8 is evaluated.
np_pi == 31416

cos_quadrant(x) ==
    LET x2 == (x * x) \div Unit
        r4 == Unit - x2 \div 56
        r3 == Unit - Mul(x2 \div 30, r4)
        r2 == Unit - Mul(x2 \div 12, r3)
    IN  Unit - Mul(x2 \div 2, r2)

np_cos(x) ==
    LET r == x % (2 * np_pi)
        a == IF r > np_pi THEN 2 * np_pi - r ELSE r
    IN  IF a > np_pi \div 2 THEN -cos_quadrant(np_pi - a) ELSE cos_quadrant(a)

\* period = 52 in _R0
period == 52

\* SeirCovidModel._adjust_R0
_adjust_R0(self, R0v) == Mul(Unit - self.sd_reduction, R0v)

\* _R0 whose seasonal forcing takes a week longer than period to repeat.
_R0_slow_season(self, t) ==
    LET amp == (self.max_R0 - Mul(Unit - self.delta, self.max_R0)) \div 2
        vert_shift == (self.max_R0 + Mul(Unit - self.delta, self.max_R0)) \div 2
    IN  Mul(amp, np_cos(Mul(2 * np_pi, t + self.phi) \div (period + 1))) + vert_shift

\* SeirCovidModel._R0.  The angle (2*pi/period)*(t + phi) is taken as
\* (2*pi*(t + phi))/period, so that the quotient 2*pi/period is not cut to
\* four decimal places before it is multiplied.
_R0(self, t) ==
    LET amp == (self.max_R0 - Mul(Unit - self.delta, self.max_R0)) \div 2
        vert_shift == (self.max_R0 + Mul(Unit - self.delta, self.max_R0)) \div 2
    IN  Mul(amp, np_cos(Mul(2 * np_pi, t + self.phi) \div period)) + vert_shift

\* SeirCovidModel._beta
_beta(self, t) == Mul(self.gamma, _R0(self, t))

\* beta_t with the static window closed at both ends (<= for <).
beta_t_closed_window(self, t, infected) ==
    LET b0 == _beta(self, t)
        b1 == IF self.static_sd /\ self.start_sd <= t
                 /\ t <= self.start_sd + self.sd_duration
              THEN _adjust_R0(self, b0) ELSE b0
    IN  IF self.dynamic_sd /\ infected # 0
        THEN IF infected > self.dynamic_sd_cutoff
                /\ (t < self.start_sd \/ t > self.start_sd + self.sd_duration)
             THEN _adjust_R0(self, b1) ELSE b1
        ELSE b1

\* beta_t with the dynamic test not restricted to the outside of the window.
beta_t_any_time(self, t, infected) ==
    LET b0 == _beta(self, t)
        b1 == IF self.static_sd /\ self.start_sd < t
                 /\ t < self.start_sd + self.sd_duration
              THEN _adjust_R0(self, b0) ELSE b0
    IN  IF self.dynamic_sd /\ infected # 0
        THEN IF infected > self.dynamic_sd_cutoff
             THEN _adjust_R0(self, b1) ELSE b1
        ELSE b1

\* The first part of SeirCovidModel._diff_eqn: beta_t after the two
\* social-distancing tests.  "and infected" is Python truthiness: the
\* dynamic test is skipped when infected is exactly zero.
beta_t(self, t, infected) ==
    LET b0 == _beta(self, t)
        b1 == IF self.static_sd /\ self.start_sd < t
                 /\ t < self.start_sd + self.sd_duration
              THEN _adjust_R0(self, b0) ELSE b0
    IN  IF self.dynamic_sd /\ infected # 0
        THEN IF infected > self.dynamic_sd_cutoff
                /\ (t < self.start_sd \/ t > self.start_sd + self.sd_duration)
             THEN _adjust_R0(self, b1) ELSE b1
        ELSE b1

\* Derivatives with the inflow of R_R halved: part of what leaves I_R is
\* lost.
Derivatives_leaking(dSdt, y, p_R, p_H, p_C, nu, gamma, delta_H, delta_C, xi_C) ==
    LET E == y[2]  I_R == y[3]  I_H == y[4]  I_C == y[5]
        H_H == y[7]  H_C == y[8]  C_C == y[10]
        dEdt == -dSdt - Mul(nu, E)
    IN  << dSdt, dEdt,
           Mul(nu, Mul(p_R, E)) - Mul(gamma, I_R),
           Mul(nu, Mul(p_H, E)) - Mul(gamma, I_H),
           Mul(nu, Mul(p_C, E)) - Mul(gamma, I_C),
           Mul(gamma, I_R) \div 2,
           Mul(gamma, I_H) - Mul(delta_H, H_H),
           Mul(gamma, I_C) - Mul(delta_C, H_C),
           Mul(delta_H, H_H),
           Mul(delta_C, H_C) - Mul(xi_C, C_C),
           Mul(xi_C, C_C) >>

\* The rest of SeirCovidModel._diff_eqn, once dSdt is known.  The float
\* product nu*p*E is taken as nu*(p*E): the fixed-point error of that order
\* does not grow with E, as the float's does not.
Derivatives(dSdt, y, p_R, p_H, p_C, nu, gamma, delta_H, delta_C, xi_C) ==
    LET E == y[2]  I_R == y[3]  I_H == y[4]  I_C == y[5]
        H_H == y[7]  H_C == y[8]  C_C == y[10]
        dEdt == -dSdt - Mul(nu, E)
    IN  << dSdt, dEdt,
           Mul(nu, Mul(p_R, E)) - Mul(gamma, I_R),
           Mul(nu, Mul(p_H, E)) - Mul(gamma, I_H),
           Mul(nu, Mul(p_C, E)) - Mul(gamma, I_C),
           Mul(gamma, I_R),
           Mul(gamma, I_H) - Mul(delta_H, H_H),
           Mul(gamma, I_C) - Mul(delta_C, H_C),
           Mul(delta_H, H_H),
           Mul(delta_C, H_C) - Mul(xi_C, C_C),
           Mul(xi_C, C_C) >>

\* SeirCovidModel._diff_eqn: the eleven derivatives at (t, y).  The last
\* eight arguments are the values solve() passed in args.
_diff_eqn(self, t, y, p_R, p_H, p_C, nu, gamma, delta_H, delta_C, xi_C) ==
    LET S == y[1]  I_R == y[3]  I_H == y[4]  I_C == y[5]
        infected == I_R + I_H + I_C
        bt == beta_t(self, t, infected)
        dSdt == -Mul(S \div self.pop_size, Mul(bt, I_R + I_H + I_C))
    IN  Derivatives(dSdt, y, p_R, p_H, p_C, nu, gamma, delta_H, delta_C, xi_C)


(***************************************************************************)
(* scipy.integrate.solve_ivp, as solve() calls it: no method, no t_eval,   *)
(* no max_step, default tolerances.  It is an adaptive-step integrator     *)
(* that returns its samples at the steps it accepted, from t_span[0] to    *)
(* t_span[1].  The model keeps exactly that: an explicit step whose length *)
(* the integrator picks from the local change of the solution (the largest *)
(* rung of StepLadder, in quarter weeks, that changes no component by more *)
(* than atol + rtol * |y|), cut at the end of the span.  As in the         *)
(* integrator, the step grows where the solution is flat, and what is      *)
(* bounded is the error of a step, not the sign of a component: one that   *)
(* decays towards zero may pass it by less than the tolerance.  Every rung *)
(* is short enough for the explicit step to be stable at the rates of the  *)
(* model.                                                                  *)
(***************************************************************************)
StepLadder == << 4, 2, 1 >>
ivp_atol == Unit \div 10
Within(k, dy, y) ==
    \A i \in 1..Len(y) : Abs((k * dy[i]) \div 4) <= ivp_atol + Abs(y[i]) \div 4

RECURSIVE first_rung(_, _, _)
first_rung(j, dy, y) ==
    IF j = Len(StepLadder) \/ Within(StepLadder[j], dy, y) THEN j
    ELSE first_rung(j + 1, dy, y)

select_step(dy, y) == (StepLadder[first_rung(1, dy, y)] * Unit) \div 4

\* The samples so far with one more, a step of h from (t, y) along dy.
Accept(sol, t, y, h, dy) ==
    [t |-> Append(sol.t, t + h),
     y |-> Append(sol.y, [i \in 1..Len(y) |-> y[i] + Mul(h, dy[i])])]

StepAlong(sol, t, y, t_bound, dy) ==
    Accept(sol, t, y, Min(select_step(dy, y), t_bound - t), dy)

\* One accepted step, appended to the samples so far; nothing once the end
\* of the span has been reached.
ivp_step(self, args, t_bound, sol) ==
    LET t == sol.t[Len(sol.t)]
        y == sol.y[Len(sol.y)]
    IN  IF t >= t_bound THEN sol
        ELSE StepAlong(sol, t, y, t_bound,
                       _diff_eqn(self, t, y, args[1], args[2], args[3], args[4], args[5],
                                 args[6], args[7], args[8]))

\* n steps in a row (the first half of them is computed before the second
\* half is begun).
RECURSIVE ivp_steps(_, _, _, _, _)
ivp_then(self, args, t_bound, n, half) ==
    IF Len(half.t) > 0 THEN ivp_steps(self, args, t_bound, n, half) ELSE half

ivp_steps(self, args, t_bound, n, sol) ==
    IF n = 0 THEN sol
    ELSE IF n = 1 THEN ivp_step(self, args, t_bound, sol)
    ELSE ivp_then(self, args, t_bound, n - n \div 2,
                  ivp_steps(self, args, t_bound, n \div 2, sol))

\* solve_ivp(self._diff_eqn, t_span, y0, args=args): sol.t and sol.y (one
\* entry of sol.y per sample here; solve() reads it by component).  No step
\* is shorter than the last rung of StepLadder, which bounds their number.
solve_ivp(self, t_span, y0, args) ==
    ivp_steps(self, args, t_span[2],
              ((t_span[2] - t_span[1]) * 4) \div (StepLadder[Len(StepLadder)] * Unit) + 1,
              [t |-> << t_span[1] >>, y |-> << y0 >>])

\* The eleven arrays S, E, I_R, I_H, I_C, R_R, H_H, H_C, R_H, C_C, R_C that
\* solve() unpacks from sol.y.
Unpack(sol) == [c \in 1..11 |-> [i \in 1..Len(sol.y) |-> sol.y[i][c]]]

\* The end of SeirCovidModel.solve, from the return of solve_ivp on: sol.y
\* is unpacked and returned.  sol.status and sol.success are not read and
\* solve has no raise statement.
solve_from(self, sol) == [ret |-> Unpack(sol), self |-> self, raised |-> "none"]

\* The arguments of solve_ivp with an initial state that depends on the
\* current values: start_sd exposed individuals more than the one.
ivp_call_seeded(self) ==
    LET E0 == 1 * Unit + self.start_sd
        S0 == self.pop_size * Unit - (E0 + 0 + 0 + 0 + 0 + 0 + 0 + 0 + 0 + 0)
    IN  [t_span |-> << self.t[1] * Unit, self.t[Len(self.t)] * Unit >>,
         y0 |-> << S0, E0, 0, 0, 0, 0, 0, 0, 0, 0, 0 >>,
         args |-> << self.p_R, self.p_H, self.p_C, self.nu, self.gamma,
                     self.delta_H, self.delta_C, self.xi_C >>]

\* The arguments solve() gives solve_ivp: t_span, y0 and args.
ivp_call(self) ==
    LET E0 == 1 * Unit
        S0 == self.pop_size * Unit - (E0 + 0 + 0 + 0 + 0 + 0 + 0 + 0 + 0 + 0)
    IN  [t_span |-> << self.t[1] * Unit, self.t[Len(self.t)] * Unit >>,
         y0 |-> << S0, E0, 0, 0, 0, 0, 0, 0, 0, 0, 0 >>,
         args |-> << self.p_R, self.p_H, self.p_C, self.nu, self.gamma,
                     self.delta_H, self.delta_C, self.xi_C >>]

\* solve_ivp when the integrator gives up after k accepted steps (its step
\* has become too small): it raises nothing and returns, with status -1,
\* the samples it has.
solve_ivp_failed(self, t_span, y0, args, k) ==
    ivp_steps(self, args, t_span[2], k, [t |-> << t_span[1] >>, y |-> << y0 >>])

\* solve() that puts sd_reduction back to its default before it returns.
solve_resetting(self) ==
    [solve_from(self, solve_ivp(self, ivp_call(self).t_span, ivp_call(self).y0,
                                ivp_call(self).args))
        EXCEPT !.self = [self EXCEPT !.sd_reduction = DefaultOf("sd_reduction")]]

\* solve() that uses up self.t: each call leaves the object with a horizon
\* one week shorter.
solve_consuming(self) ==
    [solve_from(self, solve_ivp(self, ivp_call(self).t_span, ivp_call(self).y0,
                                ivp_call(self).args))
        EXCEPT !.self = [self EXCEPT !.t = SubSeq(self.t, 1, Len(self.t) - 1)]]

\* SeirCovidModel.solve: its return value (the eleven arrays of sol.y, each
\* as long as sol.t) and the object after the call.  Nothing in solve,
\* _diff_eqn, _beta, _R0 or _adjust_R0 assigns to an attribute of self.
solve(self) ==
    solve_from(self, solve_ivp(self, ivp_call(self).t_span, ivp_call(self).y0,
                               ivp_call(self).args))

(***************************************************************************)
(* State.                                                                  *)
(*   seir_model   the attributes of the module-level SeirCovidModel object *)
(*                of app.py, shared by all callbacks                       *)
(*   controls     the browser's controls: the value of each slider and of  *)
(*                the social-distancing checklist ('sd_switches')          *)
(*   pending      the callbacks Dash still has to run for the last change  *)
(*   figure       the figure last returned to the graph, if any, with the  *)
(*                two flags of seir_model its curves were solved with      *)
(*   collapse     the last return value of toggle_sd_method, if any        *)
(*   raised       the exception the last callback ended with, or "none"    *)
(*   ignored      the keys of params_dict that the last update_seir_graph  *)
(*                found no attribute for                                   *)
(*   solved       the last return value of seir_model.solve(), the one     *)
(*                before it, whether the callback that made the last call  *)
(*                left every attribute of seir_model as the call before it *)
(*                had left them, and whether the call itself left every    *)
(*                attribute as it found it                                 *)
(*   nevents      the number of changes the user has made to the controls  *)
(*   param_call   the last GenericParam(...) call: its arguments, the      *)
(*                object it made and the exception it raised               *)
(*   rhs_self     a SeirCovidModel object as the integrator sees it        *)
(*   rhs_call     the last call of rhs_self._diff_eqn: its arguments, the  *)
(*                rate beta_t it used and the derivatives it returned      *)
(*   solve_call   the last call of rhs_self.solve(): how solve_ivp ended   *)
(*                in it (sol.status) and what solve() did with that        *)
(*   overlay_model  a SeirCovidModel object as the widget sees it          *)
(*   overlay_call the last drawing of the static social-distancing         *)
(*                overlay on overlay_model: the switches, the indices into *)
(*                t_weeks it used, the shapes and annotations it added and *)
(*                the exception it ended with                              *)
(***************************************************************************)
VARIABLES seir_model, controls, pending, figure, collapse, raised, ignored, solved,
          nevents, param_call, rhs_self, rhs_call, solve_call,
          overlay_model, overlay_call

appVars == << seir_model, controls, pending, figure, collapse, raised, ignored, solved,
              nevents >>
paramVars == << param_call >>
rhsVars == << rhs_self, rhs_call, solve_call >>
overlayVars == << overlay_model, overlay_call >>
vars == << appVars, paramVars, rhsVars, overlayVars >>

AppUnused ==
    /\ seir_model = None /\ controls = None /\ pending = {} /\ figure = None
    /\ collapse = None /\ raised = "none" /\ ignored = {} /\ solved = None
    /\ nevents = 0

(***************************************************************************)
(* app.py                                                                  *)
(***************************************************************************)

\* tunable_params without the is_constant filter.
tunable_params_unfiltered(model) == SelectSeq(model.params, LAMBDA p : TRUE)

\* tunable_params = [p for p in seir_model.params if not p.is_constant]
tunable_params(model) == SelectSeq(model.params, LAMBDA p : ~p.is_constant)

\* param_names = [p.name for p in tunable_params] + ['sd_switches']
param_names(model) ==
    [i \in 1..Len(tunable_params(model)) |-> tunable_params(model)[i].name]
        \o << "sd_switches" >>

\* dict(zip(names, values))
DictZip(names, values) ==
    LET n == Min(Len(names), Len(values))
    IN  [k \in {names[i] : i \in 1..n} |->
            values[CHOOSE i \in 1..n : names[i] = k /\ \A j \in (i + 1)..n : names[j] # k]]

hasattr(obj, k) == k \in DOMAIN obj

\* The setattr loop with each value clamped to the parameter's
\* [min_value, max_value].
SetAttrs_clamped(model, params_dict) ==
    [a \in DOMAIN model |->
        IF a \in DOMAIN params_dict
        THEN LET q == model.params[ParamNamed(a)]
             IN  IF params_dict[a] < q.min_value THEN q.min_value
                 ELSE IF params_dict[a] > q.max_value THEN q.max_value
                 ELSE params_dict[a]
        ELSE model[a]]

\* for k, v in params_dict.items(): if hasattr(seir_model, k): setattr(seir_model, k, v)
SetAttrs(model, params_dict) ==
    [a \in DOMAIN model |-> IF a \in DOMAIN params_dict THEN params_dict[a] ELSE model[a]]

\* t_weeks[i] exists for a Python list index i (negative indices count
\* from the end).
ValidIndex(list, i) == -Len(list) <= i /\ i < Len(list)
ListAt(list, i) == IF i < 0 THEN list[Len(list) + i + 1] ELSE list[i + 1]

\* int(x) of a fixed-point x: truncation towards zero.
PyInt(x) == IF x < 0 THEN -((-x) \div Unit) ELSE x \div Unit

\* The overlay indexing t_weeks by days instead of weeks.
OverlayIndices_days(model) ==
    << 7 * PyInt(model.start_sd), 7 * PyInt(model.start_sd + model.sd_duration),
       7 * PyInt((model.start_sd + model.sd_duration) \div 2) >>

\* SeirModelWidget.static_sd_overlay_shape and static_sd_overlay_annotation:
\* the three indices into model.t_weeks.
OverlayIndices(model) ==
    << PyInt(model.start_sd), PyInt(model.start_sd + model.sd_duration),
       PyInt((model.start_sd + model.sd_duration) \div 2) >>

\* SeirModelWidget.static_sd_overlay_shape(model): the list of one rectangle
\* from t_weeks[start_sd] to t_weeks[start_sd + sd_duration], or the
\* IndexError of the first subscript that is out of range.
static_sd_overlay_shape(model) ==
    IF /\ ValidIndex(model.t_weeks, OverlayIndices(model)[1])
       /\ ValidIndex(model.t_weeks, OverlayIndices(model)[2])
    THEN [raised |-> "none",
          out |-> << [x0 |-> ListAt(model.t_weeks, OverlayIndices(model)[1]),
                      x1 |-> ListAt(model.t_weeks, OverlayIndices(model)[2])] >>]
    ELSE [raised |-> "IndexError", out |-> << >>]

\* SeirModelWidget.static_sd_overlay_annotation(model): the list of one
\* label at t_weeks[int((start_sd + sd_duration) / 2)], or IndexError.
static_sd_overlay_annotation(model) ==
    IF ValidIndex(model.t_weeks, OverlayIndices(model)[3])
    THEN [raised |-> "none",
          out |-> << [x |-> ListAt(model.t_weeks, OverlayIndices(model)[3])] >>]
    ELSE [raised |-> "IndexError", out |-> << >>]

\* if params_dict.get('sd_switches'): if 'static' in params_dict['sd_switches']:
\* shapes += static_sd_overlay_shape(...); annotations += ..._annotation(...)
StaticOverlay(model, sd_switches) ==
    IF sd_switches = {} \/ "static" \notin sd_switches
    THEN [drawn |-> FALSE, raised |-> "none", indices |-> << >>,
          shapes |-> << >>, annotations |-> << >>]
    ELSE IF static_sd_overlay_shape(model).raised # "none"
    THEN [drawn |-> FALSE, raised |-> static_sd_overlay_shape(model).raised,
          indices |-> OverlayIndices(model), shapes |-> << >>, annotations |-> << >>]
    ELSE IF static_sd_overlay_annotation(model).raised # "none"
    THEN [drawn |-> FALSE, raised |-> static_sd_overlay_annotation(model).raised,
          indices |-> OverlayIndices(model), shapes |-> << >>, annotations |-> << >>]
    ELSE [drawn |-> TRUE, raised |-> "none", indices |-> OverlayIndices(model),
          shapes |-> static_sd_overlay_shape(model).out,
          annotations |-> static_sd_overlay_annotation(model).out]

\* np.where(a == max(a))[0][0]
FirstMaxIndex(a) ==
    (CHOOSE i \in 1..Len(a) :
        /\ \A j \in 1..Len(a) : a[j] <= a[i]
        /\ \A j \in 1..(i - 1) : a[j] < a[i]) - 1

\* The end of update_seir_graph, from the return of solve() on: the totals,
\* the annotations, the overlay and the figure.
GraphOf(model, params_dict, written, sv) ==
    LET after == sv.self
        I_R == sv.ret[3]  I_H == sv.ret[4]  I_C == sv.ret[5]
        H_C == sv.ret[8]  C_C == sv.ret[10]
        total_infected == [i \in 1..Len(I_R) |-> I_R[i] + I_H[i] + I_C[i]]
        total_critical == [i \in 1..Len(I_C) |-> I_C[i] + H_C[i] + C_C[i]]
        max_critical_index == FirstMaxIndex(total_critical)
        note_x == ListAt(after.t_weeks, Min(max_critical_index + 6, Len(after.t_weeks) - 1))
        overlay == /\ "sd_switches" \in DOMAIN params_dict
                   /\ params_dict["sd_switches"] # {}
                   /\ "static" \in params_dict["sd_switches"]
        idx == OverlayIndices(after)
        bad == overlay /\ \E i \in 1..Len(idx) : ~ValidIndex(after.t_weeks, idx[i])
    IN  [seir_model |-> after, written |-> written, ret |-> sv.ret,
         ignored |-> {k \in DOMAIN params_dict : ~hasattr(model, k)},
         raised |-> IF bad THEN "IndexError" ELSE "none",
         figure |-> IF bad THEN None
                    ELSE Some([static_sd |-> after.static_sd, dynamic_sd |-> after.dynamic_sd,
                               x |-> after.t_weeks, total_infected |-> total_infected,
                               total_critical |-> total_critical, note_x |-> note_x,
                               shapes |-> IF overlay
                                          THEN << [x0 |-> ListAt(after.t_weeks, idx[1]),
                                                   x1 |-> ListAt(after.t_weeks, idx[2])] >>
                                          ELSE << >>])]

\* update_seir_graph from the setattr loop on.
UpdateFrom(model, params_dict, written) ==
    GraphOf(model, params_dict, written, solve(written))

\* update_seir_graph(*params): the model after the call, what solve()
\* returned to it, the keys it skipped, and the figure it returns or the
\* exception it ends with.
update_seir_graph(model, params) ==
    UpdateFrom(model, DictZip(param_names(model), params),
               SetAttrs(model, DictZip(param_names(model), params)))

\* The end of toggle_sd_method, from the return of update_seir_graph() on.
ToggleOf(written, inner, out) ==
    [seir_model |-> inner.seir_model, written |-> written, ret |-> inner.ret, out |-> out]

\* toggle_sd_method that treats the two switches as alternatives: dynamic
\* only when static is off.
toggle_sd_method_exclusive(model, values) ==
    LET static_sd == "static" \in values
        dynamic_sd == "dynamic" \in values /\ ~static_sd
        written == [model EXCEPT !.static_sd = static_sd, !.dynamic_sd = dynamic_sd]
    IN  ToggleOf(written, update_seir_graph(written, << >>), << static_sd, dynamic_sd >>)

\* toggle_sd_method(values): the flags it writes, then update_seir_graph()
\* without arguments, then its return value.
toggle_sd_method(model, values) ==
    LET static_sd == "static" \in values
        dynamic_sd == "dynamic" \in values
        written == [model EXCEPT !.static_sd = static_sd, !.dynamic_sd = dynamic_sd]
    IN  ToggleOf(written, update_seir_graph(written, << >>), << static_sd, dynamic_sd >>)

\* The record of a solve() call that returned ret, made on the object
\* `written` and leaving it as `after`, after the call recorded in solved.
Solved(ret, written, after) ==
    Some([ret |-> ret,
          prev |-> IF solved = None THEN None ELSE Some(Get(solved).ret),
          unchanged |-> written = seir_model,
          kept |-> after = written])

(***************************************************************************)
(* The application: Dash runs every callback once when the page loads,     *)
(* then, for each change of a control, the callbacks that have it as an    *)
(* Input, each with the current values of all its Inputs.                  *)
(***************************************************************************)
MaxEvents == 2

\* The values a slider's Input is given: its initial value (the parameter's
\* default), and a value just outside the slider's range (one past the
\* maximum for an integer slider, a tenth below the minimum for the others);
\* the callback stores what it is given.
SliderPositions(p) ==
    {p.default_value,
     IF p.is_int THEN p.max_value + Unit ELSE p.min_value - Unit \div 10}

\* The values Dash passes to update_seir_graph: one per Input of its
\* decorator, the sliders of tunable_params, then the checklist.
InputValues(model) ==
    [i \in 1..Len(tunable_params(model)) |-> controls[tunable_params(model)[i].name]]
        \o << controls["sd_switches"] >>

AppInit ==
    /\ seir_model = SeirCovidModel(10000, 2 * 52, TRUE, FALSE)
    /\ controls = [k \in {tunable_params(seir_model)[i].name :
                              i \in 1..Len(tunable_params(seir_model))}
                         \cup {"sd_switches"} |->
                     IF k = "sd_switches" THEN {"static"} ELSE DefaultOf(k)]
    /\ pending = {"update_seir_graph", "toggle_sd_method"}
    /\ figure = None /\ collapse = None /\ raised = "none" /\ ignored = {}
    /\ solved = None /\ nevents = 0
    /\ param_call = None /\ rhs_self = None /\ rhs_call = None /\ solve_call = None
    /\ overlay_model = None /\ overlay_call = None

MoveSlider(i, v) ==
    /\ pending = {} /\ nevents < MaxEvents
    /\ v # controls[tunable_params(seir_model)[i].name]
    /\ controls' = [controls EXCEPT ![tunable_params(seir_model)[i].name] = v]
    /\ pending' = {"update_seir_graph"}
    /\ nevents' = nevents + 1
    /\ UNCHANGED << seir_model, figure, collapse, raised, ignored, solved >>
    /\ UNCHANGED << paramVars, rhsVars, overlayVars >>

SetSwitches(values) ==
    /\ pending = {} /\ nevents < MaxEvents
    /\ values # controls["sd_switches"]
    /\ controls' = [controls EXCEPT !["sd_switches"] = values]
    /\ pending' = {"update_seir_graph", "toggle_sd_method"}
    /\ nevents' = nevents + 1
    /\ UNCHANGED << seir_model, figure, collapse, raised, ignored, solved >>
    /\ UNCHANGED << paramVars, rhsVars, overlayVars >>

UpdateSeirGraph ==
    /\ "update_seir_graph" \in pending
    /\ \E r \in {update_seir_graph(seir_model, InputValues(seir_model))} :
           /\ seir_model' = r.seir_model
           /\ figure' = IF r.raised = "none" THEN r.figure ELSE figure
           /\ raised' = r.raised
           /\ ignored' = r.ignored
           /\ solved' = Solved(r.ret, r.written, r.seir_model)
    /\ pending' = pending \ {"update_seir_graph"}
    /\ UNCHANGED << controls, collapse, nevents >>
    /\ UNCHANGED << paramVars, rhsVars, overlayVars >>

ToggleSdMethod ==
    /\ "toggle_sd_method" \in pending
    /\ \E r \in {toggle_sd_method(seir_model, controls["sd_switches"])} :
           /\ seir_model' = r.seir_model
           /\ collapse' = Some(r.out)
           /\ solved' = Solved(r.ret, r.written, r.seir_model)
    /\ raised' = "none"
    /\ pending' = pending \ {"toggle_sd_method"}
    /\ UNCHANGED << controls, figure, ignored, nevents >>
    /\ UNCHANGED << paramVars, rhsVars, overlayVars >>

Next ==
    \/ \E i \in 1..Len(tunable_params(seir_model)) :
          \E v \in SliderPositions(tunable_params(seir_model)[i]) : MoveSlider(i, v)
    \/ \E values \in SUBSET {"static", "dynamic"} : SetSwitches(values)
    \/ UpdateSeirGraph
    \/ ToggleSdMethod

Spec == AppInit /\ [][Next]_vars

\* C1: an update whose identifier is not a tunable parameter (the key
\* 'sd_switches', for one) ends with UnknownParameterError; the key is never
\* silently passed over.
C1_UnknownRejected == ignored # {} => raised = "UnknownParameterError"

\* The parameters with minimum = maximum.
ConstantNames == {"p_R", "p_H", "p_C", "nu", "gamma", "delta_H", "delta_C", "xi_C", "phi"}

\* C5: whatever callbacks have run, with whatever slider values, and however
\* often solve() was called, every constant parameter (p_R, p_H, p_C, nu,
\* gamma, delta_H, delta_C, xi_C, phi) has its default as its current value.
C5_ConstantsKeepDefault ==
    /\ \A n \in ConstantNames :
           /\ ModelParams[ParamNamed(n)].min_value = ModelParams[ParamNamed(n)].max_value
           /\ seir_model[n] = DefaultOf(n)
    /\ \A i \in 1..Len(seir_model.params) :
           seir_model.params[i].min_value = seir_model.params[i].max_value
               => seir_model[seir_model.params[i].name] = seir_model.params[i].default_value

\* C5 witness: callbacks have run and solve() has returned, a slider value
\* (an out-of-range one) has been written to a non-constant parameter, and
\* the constants are at their defaults.
C5_Witness ==
    /\ solved # None /\ pending = {} /\ nevents > 0
    /\ \E i \in 1..Len(seir_model.params) :
           /\ seir_model.params[i].min_value # seir_model.params[i].max_value
           /\ \/ seir_model[seir_model.params[i].name] > seir_model.params[i].max_value
              \/ seir_model[seir_model.params[i].name] < seir_model.params[i].min_value
    /\ \A n \in ConstantNames : seir_model[n] = DefaultOf(n)

\* C9: a solve() call made with every attribute of the model as the call
\* before it left them returns the same eleven trajectories as that call.
C9_SolveRepeatable ==
    \A s \in solved : (s.prev # None /\ s.unchanged) => s.ret = Get(s.prev)

\* C9 witness: after the user changed a control, solve() has been called
\* twice with nothing written between the calls and returned the same
\* non-trivial trajectories (the epidemic has left the initial state).
C9_Witness ==
    /\ nevents > 0
    /\ \E s \in solved :
           /\ s.prev # None /\ s.unchanged /\ s.ret = Get(s.prev)
           /\ Len(s.ret[1]) > 1
           /\ s.ret[6][Len(s.ret[6])] > 0

\* C10: each of the eleven sequences solve() returns has num_weeks + 1
\* elements, as many as the model's t_weeks.
C10_WeeklySamples ==
    \A s \in solved : \A c \in 1..11 :
        /\ Len(s.ret[c]) = seir_model.num_weeks + 1
        /\ Len(s.ret[c]) = Len(seir_model.t_weeks)

\* S + E + I_R + I_H + I_C + R_R + H_H + H_C + R_H + C_C + R_C at sample i
\* of the eleven arrays ret.
Total(ret, i) ==
    ret[1][i] + ret[2][i] + ret[3][i] + ret[4][i] + ret[5][i] + ret[6][i]
        + ret[7][i] + ret[8][i] + ret[9][i] + ret[10][i] + ret[11][i]

\* C11: at every sample of every trajectory solve() returns, the eleven
\* compartments add up to pop_size, to within half an individual (the
\* roundings of the fixed-point arithmetic stay below that).
C11_Conservation ==
    \A s \in solved : \A i \in 1..Len(s.ret[1]) :
        Abs(Total(s.ret, i) - seir_model.pop_size * Unit) <= Unit \div 2

\* C11 witness: a trajectory in which the epidemic has run (more than a
\* tenth of the population has left S by the last sample) and whose last
\* sample still adds up to pop_size.
C11_Witness ==
    \E s \in solved :
        /\ s.ret[1][Len(s.ret[1])] < (9 * seir_model.pop_size * Unit) \div 10
        /\ Abs(Total(s.ret, Len(s.ret[1])) - seir_model.pop_size * Unit) <= Unit \div 2

\* The array a never decreases from one sample to the next.
NonDecreasing(a) == \A i \in 1..(Len(a) - 1) : a[i] <= a[i + 1]

\* C12: in every trajectory solve() returns, R_R, R_H and R_C are
\* non-decreasing from one sample to the next.
C12_RecoveredMonotone ==
    \A s \in solved :
        NonDecreasing(s.ret[6]) /\ NonDecreasing(s.ret[9]) /\ NonDecreasing(s.ret[11])

\* C14: every trajectory solve() returns starts, at its first sample, from
\* S = pop_size - 1, E = 1 and nothing in the other nine compartments,
\* whatever the callbacks wrote before the call.
C14_InitialState ==
    \A s \in solved :
        /\ s.ret[1][1] = (seir_model.pop_size - 1) * Unit
        /\ s.ret[2][1] = 1 * Unit
        /\ \A c \in 3..11 : s.ret[c][1] = 0

\* C14 witness: a slider value other than its default has been written to
\* the model, and the solve() that followed started from the same state.
C14_Witness ==
    /\ \E i \in 1..Len(seir_model.params) :
           seir_model[seir_model.params[i].name] # seir_model.params[i].default_value
    /\ \E s \in solved :
           /\ s.ret[1][1] = (seir_model.pop_size - 1) * Unit
           /\ s.ret[2][1] = 1 * Unit
           /\ s.ret[1][Len(s.ret[1])] < s.ret[1][1]

\* C15: once update_seir_graph has run for the last change of a control,
\* the current value of every non-constant parameter is exactly the value
\* its slider supplied, inside [minimum, maximum] or not.
C15_StoredAsSupplied ==
    "update_seir_graph" \notin pending =>
        \A i \in 1..Len(tunable_params(seir_model)) :
            seir_model[tunable_params(seir_model)[i].name]
                = controls[tunable_params(seir_model)[i].name]

\* C15 witness: update_seir_graph has run with a slider value above the
\* maximum and with one below the minimum, and both are the current values.
C15_Witness ==
    /\ "update_seir_graph" \notin pending
    /\ \E i, j \in 1..Len(tunable_params(seir_model)) :
           LET q == tunable_params(seir_model)[i]
               r == tunable_params(seir_model)[j]
           IN  /\ controls[q.name] > q.max_value /\ seir_model[q.name] = controls[q.name]
               /\ controls[r.name] < r.min_value /\ seir_model[r.name] = controls[r.name]

\* C17: solve() returns after no update, after any updates and after an
\* earlier solve(), and every call leaves pop_size, num_weeks, the time
\* points, every current value, both flags and every parameter's metadata
\* as it found them; the metadata is what the constructor made.
C17_SolveKeepsModel ==
    /\ \A s \in solved : s.kept
    /\ seir_model.params = ModelParams
    /\ seir_model.pop_size = 10000 /\ seir_model.num_weeks = 2 * 52
    /\ (pending = {} => solved # None)

\* C17 witness: solve() has returned for a second time, on a model that
\* holds a slider value other than the default and both flags changed from
\* their initial values, and has left the model as it found it.
C17_Witness ==
    /\ \E s \in solved : s.prev # None /\ s.kept
    /\ ~seir_model.static_sd /\ seir_model.dynamic_sd
    /\ \E i \in 1..Len(seir_model.params) :
           seir_model[seir_model.params[i].name] # seir_model.params[i].default_value

\* C18: once toggle_sd_method has run for the last change of the switches,
\* static_sd is true exactly when 'static' is among the values and
\* dynamic_sd exactly when 'dynamic' is, whatever the flags were before; the
\* two values it returns are the same two booleans.
C18_FlagsFollowSwitches ==
    "toggle_sd_method" \notin pending =>
        /\ seir_model.static_sd = ("static" \in controls["sd_switches"])
        /\ seir_model.dynamic_sd = ("dynamic" \in controls["sd_switches"])
        /\ collapse = Some(<< seir_model.static_sd, seir_model.dynamic_sd >>)

\* C18 witness: toggle_sd_method has run with both switches on, after the
\* user changed them, and both flags are set.
C18_Witness ==
    /\ "toggle_sd_method" \notin pending /\ nevents > 0
    /\ controls["sd_switches"] = {"static", "dynamic"}
    /\ seir_model.static_sd /\ seir_model.dynamic_sd

\* C19: once both callbacks have run for a change of the switches, in
\* whichever order, the figure that update_seir_graph returned was solved
\* with the flags the new switch values stand for.
C19_FigureUsesNewFlags ==
    pending = {} =>
        \A f \in figure :
            /\ f.static_sd = ("static" \in controls["sd_switches"])
            /\ f.dynamic_sd = ("dynamic" \in controls["sd_switches"])

(***************************************************************************)
(* Defining parameters: GenericParam called with arguments from bounded    *)
(* sets.  __init__ has no raise statement, so every call returns an object.*)
(***************************************************************************)
MaxParamValue == 2
ParamValues == {k * Unit : k \in -1..MaxParamValue}
ParamOptValues == {None} \cup {Some(v) : v \in ParamValues}
ParamGroups == {None, Some("advanced")}

Define(min_value, max_value, default_value, is_int, group) ==
    /\ param_call' = Some([min_value |-> min_value, max_value |-> max_value,
                           default_value |-> default_value, group |-> group,
                           obj |-> Some(GenericParam("x", min_value, max_value, default_value,
                                                     is_int, FALSE, group, FALSE)),
                           raised |-> "none"])
    /\ UNCHANGED << appVars, rhsVars, overlayVars >>

ParamInit ==
    AppUnused /\ param_call = None /\ rhs_self = None /\ rhs_call = None /\ solve_call = None
    /\ overlay_model = None /\ overlay_call = None
ParamNext ==
    \E min_value \in ParamValues, max_value \in ParamOptValues,
       default_value \in ParamOptValues, is_int \in BOOLEAN, group \in ParamGroups :
        Define(min_value, max_value, default_value, is_int, group)
SpecParam == ParamInit /\ [][ParamNext]_vars

\* The arguments of a call are inconsistent: a maximum below the minimum,
\* or an explicit default outside [minimum, maximum] (the maximum being the
\* minimum when none is given).
InvalidBounds(c) ==
    LET mx == IF c.max_value = None THEN c.min_value ELSE Get(c.max_value)
    IN  \/ c.max_value # None /\ c.min_value > Get(c.max_value)
        \/ c.default_value # None
           /\ (Get(c.default_value) < c.min_value \/ Get(c.default_value) > mx)

\* C2: a definition with a maximum below the minimum, or with an explicit
\* default outside [minimum, maximum], fails with InvalidBoundsError and
\* creates no Parameter.
C2_InvalidBoundsRejected ==
    \A c \in param_call :
        InvalidBounds(c) => c.raised = "InvalidBoundsError" /\ c.obj = None

\* C3: every Parameter that exists has minimum <= default <= maximum, and a
\* default that was not supplied is the midpoint of minimum and maximum.
C3_DefaultWithinBounds ==
    \A c \in param_call : \A o \in c.obj :
        /\ o.min_value <= o.default_value
        /\ o.default_value <= o.max_value
        /\ c.default_value = None => 2 * o.default_value = o.min_value + o.max_value

\* C4: a parameter defined without a group whose minimum equals its maximum
\* (also when the maximum was left out) is in the group 'constant', and
\* is_constant holds exactly when minimum = maximum.
C4_ConstantGroup ==
    \A c \in param_call : \A o \in c.obj :
        /\ (c.group = None /\ o.min_value = o.max_value) => o.group = Some("constant")
        /\ o.is_constant <=> (o.min_value = o.max_value)


(***************************************************************************)
(* The right-hand side: _diff_eqn called, as the integrator calls it, at   *)
(* any time and any state, on a model whose attributes are any of the      *)
(* values the callbacks can have written (setattr stores what it is given, *)
(* in range or not).                                                       *)
(***************************************************************************)
MaxT == 7
RhsTimes == {k * Unit : k \in 0..MaxT} \cup {(5 * Unit) \div 2, 10 * Unit}
RhsInfected == {0, 30 * Unit, 50 * Unit}
RhsStates ==
    {<< (10000 - 1) * Unit - 3 * i, Unit, i, i, i, 0, 0, 0, 0, 0, 0 >> : i \in {j \div 3 : j \in RhsInfected}}
RhsModels ==
    {[SeirCovidModel(10000, 104, st, dy) EXCEPT
        !.start_sd = a[1], !.sd_duration = a[2], !.sd_reduction = r, !.dynamic_sd_cutoff = c,
        !.max_R0 = w[1], !.delta = w[2]] :
        st \in BOOLEAN, dy \in BOOLEAN,
        a \in {<< 2 * Unit, 4 * Unit >>, << 3 * Unit, 2 * Unit >>},
        w \in {<< (225 * Unit) \div 100, (15 * Unit) \div 100 >>,
               << (19 * Unit) \div 10, -(Unit \div 10) >>},
        r \in {(4 * Unit) \div 10, (15 * Unit) \div 10},
        c \in {38 * Unit, -5 * Unit}}

Args(self) ==
    << self.p_R, self.p_H, self.p_C, self.nu, self.gamma, self.delta_H, self.delta_C, self.xi_C >>

DiffEqn(t, y) ==
    /\ rhs_self # None
    /\ LET self == Get(rhs_self)
           a == Args(self)
           infected == y[3] + y[4] + y[5]
       IN  rhs_call' = Some([t |-> t, y |-> y, infected |-> infected,
                             rate |-> _beta(self, t),
                             beta_t |-> beta_t(self, t, infected),
                             dydt |-> _diff_eqn(self, t, y, a[1], a[2], a[3], a[4], a[5],
                                                a[6], a[7], a[8])])
    /\ UNCHANGED << appVars, paramVars, rhs_self, solve_call, overlayVars >>

RhsInit ==
    /\ AppUnused /\ param_call = None
    /\ rhs_self \in {Some(m) : m \in RhsModels} /\ rhs_call = None /\ solve_call = None
    /\ overlay_model = None /\ overlay_call = None
RhsNext == \E t \in RhsTimes, y \in RhsStates : DiffEqn(t, y)
SpecRhs == RhsInit /\ [][RhsNext]_vars

\* t lies strictly inside the static window.
InWindow(self, t) == self.start_sd < t /\ t < self.start_sd + self.sd_duration
\* t lies strictly outside the static window.
OutsideWindow(self, t) == t < self.start_sd \/ t > self.start_sd + self.sd_duration
\* (1 - sd_reduction) * r
Reduced(self, r) == Mul(Unit - self.sd_reduction, r)

\* C6: with the static policy alone, the rate used at t is
\* (1 - sd_reduction) * transmission_rate(t) exactly when
\* start_sd < t < start_sd + sd_duration, and transmission_rate(t) otherwise;
\* with start_sd = 2, sd_duration = 4, sd_reduction = 0.4 that is
\* 0.6 * transmission_rate(3) at t = 3 and transmission_rate(10) at t = 10.
C6_StaticWindow ==
    \A self \in rhs_self : \A c \in rhs_call :
        (self.static_sd /\ ~self.dynamic_sd) =>
            /\ InWindow(self, c.t) => c.beta_t = Reduced(self, c.rate)
            /\ ~InWindow(self, c.t) => c.beta_t = c.rate
            /\ (self.start_sd = 2 * Unit /\ self.sd_duration = 4 * Unit
                /\ self.sd_reduction = (4 * Unit) \div 10) =>
                    /\ c.t = 3 * Unit => c.beta_t = Mul((6 * Unit) \div 10, c.rate)
                    /\ c.t = 10 * Unit => c.beta_t = c.rate

\* C6 witness: the static policy alone, t = 3 inside the window 2..6, and
\* the rate used is 0.6 of a non-zero transmission rate.
C6_Witness ==
    \E self \in rhs_self : \E c \in rhs_call :
        /\ self.static_sd /\ ~self.dynamic_sd
        /\ self.start_sd = 2 * Unit /\ self.sd_duration = 4 * Unit
        /\ self.sd_reduction = (4 * Unit) \div 10
        /\ c.t = 3 * Unit /\ c.rate > 0
        /\ c.beta_t = Mul((6 * Unit) \div 10, c.rate) /\ c.beta_t # c.rate

\* C7: with the dynamic policy active the rate is reduced by the dynamic
\* policy exactly when infected > dynamic_sd_cutoff and t is outside the
\* static window (whatever the cutoff, in range or not).
C7_DynamicTrigger ==
    \A self \in rhs_self : \A c \in rhs_call :
        self.dynamic_sd =>
            LET b1 == IF self.static_sd /\ InWindow(self, c.t)
                      THEN Reduced(self, c.rate) ELSE c.rate
            IN  c.beta_t = IF c.infected > self.dynamic_sd_cutoff /\ OutsideWindow(self, c.t)
                           THEN Reduced(self, b1) ELSE b1

\* C8: whatever the two flags, the reduction is applied at most once: the
\* rate used is transmission_rate(t) or (1 - sd_reduction) times it.
C8_ReducedAtMostOnce ==
    \A self \in rhs_self : \A c \in rhs_call :
        c.beta_t = c.rate \/ c.beta_t = Reduced(self, c.rate)

\* C8 witness: both policies active, the infected count above the cutoff,
\* t inside the static window, and the rate reduced once (the twice-reduced
\* rate is a different number there).
C8_Witness ==
    \E self \in rhs_self : \E c \in rhs_call :
        /\ self.static_sd /\ self.dynamic_sd
        /\ c.infected > self.dynamic_sd_cutoff /\ InWindow(self, c.t)
        /\ c.beta_t = Reduced(self, c.rate)
        /\ Reduced(self, Reduced(self, c.rate)) # c.beta_t
        /\ c.beta_t # c.rate

\* C16: the transmission rate gamma * _R0(t) is the same 52 weeks later,
\* at every t and for all current values of max_R0, delta and phi.
C16_Periodic ==
    \A self \in rhs_self : \A c \in rhs_call :
        /\ c.rate = _beta(self, c.t)
        /\ c.rate = _beta(self, c.t + 52 * Unit)
        /\ c.rate = _beta(self, c.t + 2 * 52 * Unit)

\* C16 witness: a rate that is not constant over the year (half a year
\* later it is a different number) and is the same a year later.
C16_Witness ==
    \E self \in rhs_self : \E c \in rhs_call :
        /\ c.rate # _beta(self, c.t + 26 * Unit)
        /\ c.rate = _beta(self, c.t + 52 * Unit)

\* C20: with both policies active and infected > dynamic_sd_cutoff, the rate
\* is unreduced at t = start_sd and at t = start_sd + sd_duration, and
\* reduced by exactly one of the two policies at every other t.
C20_BoundaryInstants ==
    \A self \in rhs_self : \A c \in rhs_call :
        (self.static_sd /\ self.dynamic_sd /\ c.infected > self.dynamic_sd_cutoff) =>
            IF c.t = self.start_sd \/ c.t = self.start_sd + self.sd_duration
            THEN c.beta_t = c.rate
            ELSE c.beta_t = Reduced(self, c.rate)

(***************************************************************************)
(* solve() and the ways solve_ivp can end.  solve_ivp reports a failure of *)
(* the integration in its result (status -1, success False, the samples    *)
(* accepted so far in sol.y); it does not raise.                           *)
(***************************************************************************)
MaxAccepted == 2

\* The models solve() is called on: the application's, with either flag and
\* with slider values written to the window and to the cutoff.
SolveModels ==
    {[SeirCovidModel(10000, 2 * 52, st, dy) EXCEPT
        !.start_sd = a[1], !.sd_duration = a[2], !.dynamic_sd_cutoff = c] :
        st \in BOOLEAN, dy \in BOOLEAN,
        a \in {<< 2 * Unit, 4 * Unit >>, << 21 * Unit, 4 * Unit >>, << 2 * Unit, 41 * Unit >>},
        c \in {38 * Unit, 101 * Unit}}

\* solve() in which solve_ivp reaches the end of the span (status 0).
SolveConverged ==
    /\ rhs_self # None
    /\ \E r \in {solve(Get(rhs_self))} :
           solve_call' = Some([status |-> 0, raised |-> r.raised,
                               returned |-> IF r.raised = "none" THEN Some(r.ret) ELSE None,
                               samples |-> Len(r.ret[1])])
    /\ UNCHANGED << appVars, paramVars, rhs_self, rhs_call, overlayVars >>

\* solve() in which solve_ivp gives up after k accepted steps (status -1).
SolveFailed(k) ==
    /\ rhs_self # None
    /\ \E r \in {solve_from(Get(rhs_self),
                              solve_ivp_failed(Get(rhs_self), ivp_call(Get(rhs_self)).t_span,
                                               ivp_call(Get(rhs_self)).y0,
                                               ivp_call(Get(rhs_self)).args, k))} :
           solve_call' = Some([status |-> -1, raised |-> r.raised,
                               returned |-> IF r.raised = "none" THEN Some(r.ret) ELSE None,
                               samples |-> Len(r.ret[1])])
    /\ UNCHANGED << appVars, paramVars, rhs_self, rhs_call, overlayVars >>

SolveInit ==
    /\ AppUnused /\ param_call = None
    /\ rhs_self \in {Some(m) : m \in SolveModels} /\ rhs_call = None /\ solve_call = None
    /\ overlay_model = None /\ overlay_call = None
SolveNext ==
    \/ SolveConverged
    \/ \E k \in 0..MaxAccepted : SolveFailed(k)
SpecSolve == SolveInit /\ [][SolveNext]_vars

\* C13: a solve() call whose integration did not converge ends with
\* IntegrationError and returns no trajectories.
C13_IntegrationErrorRaised ==
    \A c \in solve_call :
        c.status # 0 => c.raised = "IntegrationError" /\ c.returned = None

(***************************************************************************)
(* The static social-distancing overlay on the application's model, for    *)
(* every position of the two sliders of the window and for positions up to *)
(* OverlayMargin outside their ranges.                                     *)
(***************************************************************************)
OverlayMargin == 1

\* The integer values from OverlayMargin below a parameter's minimum to
\* OverlayMargin above its maximum.
OverlayValues(n) ==
    {k * Unit : k \in (PyInt(ModelParams[ParamNamed(n)].min_value) - OverlayMargin) ..
                      (PyInt(ModelParams[ParamNamed(n)].max_value) + OverlayMargin)}

\* seir_model of app.py after update_seir_graph has written the two sliders.
OverlayModels ==
    {SetAttrs(SeirCovidModel(10000, 2 * 52, TRUE, FALSE),
              [k \in {"start_sd", "sd_duration"} |->
                  IF k = "start_sd" THEN a ELSE d]) :
        a \in OverlayValues("start_sd"), d \in OverlayValues("sd_duration")}

\* model[n] lies within [min_value, max_value] of the parameter named n.
WithinBounds(model, n) ==
    /\ model.params[ParamNamed(n)].min_value <= model[n]
    /\ model[n] <= model.params[ParamNamed(n)].max_value

DrawOverlay(sd_switches) ==
    /\ overlay_model # None
    /\ \E r \in {StaticOverlay(Get(overlay_model), sd_switches)} :
           overlay_call' = Some([sd_switches |-> sd_switches, drawn |-> r.drawn,
                                 raised |-> r.raised, indices |-> r.indices,
                                 shapes |-> r.shapes, annotations |-> r.annotations])
    /\ UNCHANGED << appVars, paramVars, rhsVars, overlay_model >>

OverlayInit ==
    /\ AppUnused /\ param_call = None
    /\ rhs_self = None /\ rhs_call = None /\ solve_call = None
    /\ overlay_model \in {Some(m) : m \in OverlayModels} /\ overlay_call = None
OverlayNext == \E sd_switches \in SUBSET {"static", "dynamic"} : DrawOverlay(sd_switches)
SpecOverlay == OverlayInit /\ [][OverlayNext]_vars

\* C21: on the application's model (num_weeks = 104), with start_sd and
\* sd_duration within their parameter bounds, every index the static overlay
\* uses lies in 0..num_weeks, the positions of t_weeks, and drawing the
\* overlay never ends with IndexError.
C21_OverlayIndicesValid ==
    \A m \in overlay_model : \A c \in overlay_call :
        (m.num_weeks = 104 /\ WithinBounds(m, "start_sd") /\ WithinBounds(m, "sd_duration")) =>
            /\ c.raised = "none"
            /\ "static" \in c.sd_switches => c.drawn /\ Len(c.indices) = 3
            /\ \A i \in 1..Len(c.indices) :
                   /\ 0 <= c.indices[i] /\ c.indices[i] <= m.num_weeks
                   /\ c.indices[i] + 1 \in DOMAIN m.t_weeks

\* The overlay has been drawn with both sliders at their maximum: the
\* rectangle runs from week 20 to week 60.
C21_Witness ==
    \E m \in overlay_model : \E c \in overlay_call :
        /\ m.num_weeks = 104
        /\ m.start_sd = m.params[ParamNamed("start_sd")].max_value
        /\ m.sd_duration = m.params[ParamNamed("sd_duration")].max_value
        /\ c.drawn /\ c.indices = << 20, 60, 30 >>
        /\ c.shapes = << [x0 |-> 20, x1 |-> 60] >>

=============================================================================
